---- MODULE Spec2Model ----
(***************************************************************************)
(* City Desk: the three entry points of the service as state machines.     *)
(*   - the access gate        (src/src/authorizer.py, lambda_handler)      *)
(*   - the query handler      (src/src/lambda_function.py, lambda_handler) *)
(*   - the ingestion driver   (src/scripts/ingest_data.py, main)           *)
(* The entry points share no runtime state, so each has a specification of *)
(* its own (SpecAuth, SpecQuery, SpecIngest) over its own variables; the   *)
(* variables of the other two stay at their idle values.                   *)
(***************************************************************************)
EXTENDS Integers, Sequences, FiniteSets, TLC

VARIABLES
    \* access gate
    API_KEY,        \* os.environ['API_KEY'], read once at import
    authEvent,      \* the authorizer event
    authPc,         \* "try" | "except" | "done"
    authExc,        \* the exception caught by the except clause ("" if none)
    authResult,     \* what the invocation produced: a returned policy or a raised error
    \* query handler
    queryEvent,     \* the API Gateway event
    queryPc,        \* "start" | "retrieve" | "generate" | "done"
    query,          \* body.get('q', '')
    top_k,          \* body.get('top_k', 6)
    retrieval_response, \* what retrieve gave: nothing yet, a response, or an exception
    citations,      \* generate_answer's citations list
    model_response, \* what invoke_model gave: nothing yet, an output text, or an exception
    queryCalls,     \* the external calls made so far, in order
    queryResponse,  \* the handler's return value
    \* ingestion driver
    dirExists,      \* os.path.exists(args.documents_dir)
    files,          \* documents_dir.rglob('*'), in the order it is walked
    ingestPc,       \* "validate" | "upload" | "create" | "start" | "wait" | "poll" | "exited"
    fileIdx,        \* position of the upload loop in files
    uploaded_count,
    data_source_id,
    job_id,
    clock,          \* time.time(), in seconds
    start_time,     \* wait_for_ingestion_completion's start_time
    status,         \* what the last status check gave
    success,        \* what wait_for_ingestion_completion returned ("none" before it returns)
    ingestCalls,    \* the storage and admin calls made so far, in order
    exitCode        \* the process's exit code (-1 while it runs)

authVars == <<API_KEY, authEvent, authPc, authExc, authResult>>
queryVars == <<queryEvent, queryPc, query, top_k, retrieval_response, citations,
               model_response, queryCalls, queryResponse>>
ingestVars == <<dirExists, files, ingestPc, fileIdx, uploaded_count, data_source_id, job_id,
                clock, start_time, status, success, ingestCalls, exitCode>>
vars == <<authVars, queryVars, ingestVars>>

(***************************************************************************)
(* Python values.  A value is a record tagged with its Python type; a dict *)
(* is a function from its keys, so a missing key is a key outside DOMAIN.  *)
(***************************************************************************)
PyStr(s) == [type |-> "str", val |-> s]
PyInt(s) == [type |-> "int", val |-> s]
PyNone == [type |-> "NoneType", val |-> "None"]
PyAbsent == [type |-> "absent", val |-> ""]
\* a str held as its sequence of characters
PyText(chars) == [type |-> "str", chars |-> chars]

EmptyDict == [k \in {} |-> PyAbsent]

\* All dicts with keys among Keys and values among Vals.
DictsOver(Keys, Vals) == UNION {[K -> Vals] : K \in SUBSET Keys}

\* d.get(key, default)
DictGet(d, key, default) == IF key \in DOMAIN d THEN d[key] ELSE default

(***************************************************************************)
(* Access gate                                                             *)
(***************************************************************************)
Secrets == {"", "abc123"}

HeaderNames == {"x-api-key", "X-Api-Key"}

HeaderValues == {PyStr(""), PyStr("abc123"), PyStr("wrong"), PyNone, PyInt("42")}

\* event['headers']: absent, null, or a dict of headers
HeadersValues ==
    {[type |-> "absent", items |-> EmptyDict], [type |-> "NoneType", items |-> EmptyDict]}
    \cup {[type |-> "dict", items |-> d] : d \in DictsOver(HeaderNames, HeaderValues)}

MethodArns == {PyAbsent, PyStr("arn:aws:execute-api:GET/query"), PyStr("arn:aws:execute-api:POST/query")}

AuthEvents == [headers : HeadersValues, methodArn : MethodArns]

generate_policy(effect, resource) ==
    [principalId |-> "user",
     policyDocument |->
        [Version |-> "2012-10-17",
         Statement |-> <<[Action |-> "execute-api:Invoke",
                          Effect |-> effect,
                          Resource |-> resource]>>]]

Returned(value) == [kind |-> "return", value |-> value, exc |-> ""]
Raised(exc) == [kind |-> "raise", value |-> EmptyDict, exc |-> exc]
NoResult == [kind |-> "none", value |-> EmptyDict, exc |-> ""]

\* event['methodArn'] inside generate_policy(effect, event['methodArn'])
PolicyFor(effect, event) ==
    IF event.methodArn.type = "absent"
    THEN Raised("KeyError: 'methodArn'")
    ELSE Returned(generate_policy(effect, event.methodArn.val))

\* The try block: headers = event.get('headers', {}); api_key = headers.get('x-api-key', '');
\* the log line slices api_key[:8]; then the comparison with API_KEY.
AuthTryBlock(event, secret) ==
    LET headers == IF event.headers.type = "absent"
                   THEN [type |-> "dict", items |-> EmptyDict]
                   ELSE event.headers
    IN  IF headers.type # "dict"
        THEN Raised("AttributeError: 'NoneType' object has no attribute 'get'")
        ELSE LET api_key == DictGet(headers.items, "x-api-key", PyStr(""))
             IN  IF api_key.type # "str"
                 THEN Raised("TypeError: object is not subscriptable")
                 ELSE IF api_key = PyStr(secret)
                      THEN PolicyFor("Allow", event)
                      ELSE PolicyFor("Deny", event)

\* The except clause: return generate_policy('Deny', event['methodArn'])
AuthExceptBlock(event) == PolicyFor("Deny", event)

\* The try block runs to its return, or to the exception the except clause catches.
AuthTry ==
    /\ authPc = "try"
    /\ LET r == AuthTryBlock(authEvent, API_KEY)
       IN  IF r.kind = "raise"
           THEN /\ authPc' = "except"
                /\ authExc' = r.exc
                /\ UNCHANGED authResult
           ELSE /\ authPc' = "done"
                /\ authResult' = r
                /\ UNCHANGED authExc
    /\ UNCHANGED <<API_KEY, authEvent>>
    /\ UNCHANGED <<queryVars, ingestVars>>

\* The except clause runs; an exception raised inside it leaves the handler.
AuthExcept ==
    /\ authPc = "except"
    /\ authResult' = AuthExceptBlock(authEvent)
    /\ authPc' = "done"
    /\ UNCHANGED <<API_KEY, authEvent, authExc>>
    /\ UNCHANGED <<queryVars, ingestVars>>

AuthNext == AuthTry \/ AuthExcept

(***************************************************************************)
(* Query handler                                                           *)
(***************************************************************************)
\* Texts are sequences of characters, so that slicing, strip() and
\* startswith() are computed on them.
Chars(n, c, last) == [i \in 1..n |-> IF i = n THEN last ELSE c]

Whitespace == {" ", "\n", "\t"}

RECURSIVE LStrip(_)
LStrip(t) == IF t # <<>> /\ Head(t) \in Whitespace THEN LStrip(Tail(t)) ELSE t

RECURSIVE RStrip(_)
RStrip(t) ==
    IF t # <<>> /\ t[Len(t)] \in Whitespace THEN RStrip(SubSeq(t, 1, Len(t) - 1)) ELSE t

\* str.strip()
Strip(t) == RStrip(LStrip(t))

\* t.startswith(p)
StartsWith(t, p) == Len(t) >= Len(p) /\ SubSeq(t, 1, Len(p)) = p

\* t[n:]
SliceFrom(t, n) == SubSeq(t, n + 1, Len(t))

\* t[:n]
SliceTo(t, n) == IF Len(t) <= n THEN t ELSE SubSeq(t, 1, n)

AnswerPrefix == <<"A", "n", "s", "w", "e", "r", ":">>
AnswerPrefixLen == 7
CitationTextLimit == 200
Ellipsis == <<".", ".", ".">>

\* Bounds of the model.
MaxResults == 2
MaxElapsedMs == 1

\* json.loads on the request bodies of the model.
JsonDict(d) == [type |-> "dict", items |-> d]
JsonNull == [type |-> "NoneType", items |-> EmptyDict]

BodyTexts ==
    {"{}", "null", "not json",
     "{\"q\": \"\", \"top_k\": 6}",
     "{\"q\": null}",
     "{\"q\": 7}",
     "{\"top_k\": 3}",
     "{\"q\": \"permit\"}",
     "{\"q\": \"parking\", \"top_k\": 3}"}

json_loads(text) ==
    CASE text = "{}" -> Returned(JsonDict(EmptyDict))
      [] text = "null" -> Returned(JsonNull)
      [] text = "{\"q\": \"\", \"top_k\": 6}" ->
            Returned(JsonDict([k \in {"q", "top_k"} |->
                                IF k = "q" THEN PyStr("") ELSE PyInt("6")]))
      [] text = "{\"q\": null}" -> Returned(JsonDict([k \in {"q"} |-> PyNone]))
      [] text = "{\"q\": 7}" -> Returned(JsonDict([k \in {"q"} |-> PyInt("7")]))
      [] text = "{\"top_k\": 3}" -> Returned(JsonDict([k \in {"top_k"} |-> PyInt("3")]))
      [] text = "{\"q\": \"permit\"}" ->
            Returned(JsonDict([k \in {"q"} |-> PyStr("permit")]))
      [] text = "{\"q\": \"parking\", \"top_k\": 3}" ->
            Returned(JsonDict([k \in {"q", "top_k"} |->
                                IF k = "q" THEN PyStr("parking") ELSE PyInt("3")]))
      [] OTHER -> Raised("JSONDecodeError: Expecting value")

\* event['body']: absent, null, or a string
QueryEvents == [body : {PyAbsent, PyNone} \cup {PyStr(t) : t \in BodyTexts}]

\* bool(v)
Truthy(v) ==
    CASE v.type = "str" -> v.val # ""
      [] v.type = "int" -> v.val # "0"
      [] OTHER -> FALSE

\* json.dumps(d): the JSON text of the object d
json_dumps(d) == [type |-> "str", json |-> d]

Response(statusCode, d) == [statusCode |-> statusCode, body |-> json_dumps(d)]
NoResponse == [statusCode |-> 0, body |-> json_dumps(EmptyDict)]

MissingParameter == Response(400, [error |-> "Missing required parameter: q (query)"])

\* The 500 without the exception's message.
InternalError_NoMessage(msg) ==
    Response(500, [error |-> "Internal server error", message |-> "Internal server error"])

\* The 500 of the handler's except clause.
InternalError(msg) == Response(500, [error |-> "Internal server error", message |-> msg])

CannotFindLong == "I cannot find specific information to answer your question. Please try rephrasing or contact NYC 311 for assistance."
CannotFindShort == "I cannot find specific information to answer your question."

\* The 200 returned when retrieval has no results.
NoResultsResponse(elapsed) ==
    Response(200, [answer |-> PyStr(CannotFindLong),
                   citations |-> <<>>,
                   retrieval_time_ms |-> elapsed])

\* The 200 returned after generate_answer.
AnswerResponse(answer, cites, elapsed, q) ==
    Response(200, [answer |-> answer,
                   citations |-> cites,
                   retrieval_time_ms |-> elapsed,
                   query |-> q])

\* Retrieval results: a passage with optional content, text, metadata and score.
Optional(present, value) == [present |-> present, value |-> value]

Passage(hasContent, text, metadata, score) ==
    [content |-> Optional(hasContent, [text |-> text, metadata |-> metadata]), score |-> score]

FullMetadata ==
    [k \in {"source_url", "title", "section"} |->
        CASE k = "source_url" -> "https://nyc.gov/permits"
          [] k = "title" -> "Permits"
          [] k = "section" -> "Fees"]

TitleOnly == [k \in {"title"} |-> "Parking"]

Passages ==
    {Passage(TRUE, Optional(TRUE, Chars(3, "p", "q")), Optional(TRUE, FullMetadata), Optional(TRUE, 87)),
     Passage(TRUE, Optional(TRUE, <<>>), Optional(TRUE, FullMetadata), Optional(TRUE, 55)),
     Passage(TRUE, Optional(TRUE, Chars(CitationTextLimit, "a", "y")), Optional(TRUE, TitleOnly), Optional(FALSE, 0)),
     Passage(TRUE, Optional(TRUE, Chars(CitationTextLimit + 1, "a", "z")), Optional(FALSE, EmptyDict), Optional(TRUE, 42)),
     Passage(FALSE, Optional(FALSE, <<>>), Optional(FALSE, EmptyDict), Optional(TRUE, 10))}

RECURSIVE SeqsUpTo(_, _)
SeqsUpTo(S, n) ==
    IF n = 0 THEN {<<>>}
    ELSE LET shorter == SeqsUpTo(S, n - 1)
         IN  shorter \cup {Append(q, x) : q \in shorter, x \in S}

\* The retrieve response: 'retrievalResults' absent, or a list of passages.
RetrievalResponses ==
    {Optional(FALSE, <<>>)} \cup {Optional(TRUE, rs) : rs \in SeqsUpTo(Passages, MaxResults)}

RetrievalErrors == {"ClientError: ThrottlingException", "EndpointConnectionError"}

\* What invoke_model can give back: an error, a body without results, or a text.
ModelTexts ==
    {pre \o mid \o suf :
        pre \in {<<>>, <<" ">>},
        mid \in {<<>>, AnswerPrefix, AnswerPrefix \o AnswerPrefix, <<"a", "n", "s", "w", "e", "r", ":">>},
        suf \in {<<>>, <<"y">>, <<" ", "y">>, <<"y", "\n">>, <<"y", " ", "A">>}}

GenerationErrors == {"ClientError: ModelTimeoutException", "KeyError: 'results'"}

\* result.get('content', {}).get('text', '')
PassageText(result) ==
    IF result.content.present /\ result.content.value.text.present
    THEN result.content.value.text.value
    ELSE <<>>

\* result.get('content', {}).get('metadata', {})
PassageMetadata(result) ==
    IF result.content.present /\ result.content.value.metadata.present
    THEN result.content.value.metadata.value
    ELSE EmptyDict

\* The citation with the cut made at len(text) >= 200.
Citation_CutsAtLimit(result) ==
    LET text == PassageText(result)
        metadata == PassageMetadata(result)
    IN  [text |-> IF Len(text) >= CitationTextLimit
                  THEN SliceTo(text, CitationTextLimit) \o Ellipsis
                  ELSE text,
         source_url |-> DictGet(metadata, "source_url", ""),
         title |-> DictGet(metadata, "title", ""),
         section |-> DictGet(metadata, "section", ""),
         relevance_score |-> IF result.score.present THEN result.score.value ELSE 0]

\* The citation dict built for one passage.
Citation(result) ==
    LET text == PassageText(result)
        metadata == PassageMetadata(result)
    IN  [text |-> IF Len(text) > CitationTextLimit
                  THEN SliceTo(text, CitationTextLimit) \o Ellipsis
                  ELSE text,
         source_url |-> DictGet(metadata, "source_url", ""),
         title |-> DictGet(metadata, "title", ""),
         section |-> DictGet(metadata, "section", ""),
         relevance_score |-> IF result.score.present THEN result.score.value ELSE 0]

\* generate_answer without its 'if text:' test.
RECURSIVE GatherContext_KeepsEmptyText(_, _, _, _)
GatherContext_KeepsEmptyText(results, i, context_parts, cites) ==
    IF i > Len(results)
    THEN [context_parts |-> context_parts, citations |-> cites]
    ELSE GatherContext_KeepsEmptyText(results, i + 1,
                                      Append(context_parts, PassageText(results[i])),
                                      Append(cites, Citation(results[i])))

\* The loop of generate_answer over retrievalResults: a passage with text adds
\* its text to context_parts and its citation to citations.
RECURSIVE GatherContext(_, _, _, _)
GatherContext(results, i, context_parts, cites) ==
    IF i > Len(results)
    THEN [context_parts |-> context_parts, citations |-> cites]
    ELSE IF PassageText(results[i]) # <<>>
         THEN GatherContext(results, i + 1,
                            Append(context_parts, PassageText(results[i])),
                            Append(cites, Citation(results[i])))
         ELSE GatherContext(results, i + 1, context_parts, cites)

\* The clean-up without the two strip() calls.
CleanAnswer_NoStrip(outputText) ==
    IF StartsWith(outputText, AnswerPrefix)
    THEN SliceFrom(outputText, AnswerPrefixLen)
    ELSE outputText

\* The clean-up of the model's output text.
CleanAnswer(outputText) ==
    LET answer == Strip(outputText)
    IN  IF StartsWith(answer, AnswerPrefix)
        THEN Strip(SliceFrom(answer, AnswerPrefixLen))
        ELSE answer

RetrieveCall(q, k) == [api |-> "retrieve", text |-> q, numberOfResults |-> k]
InvokeModelCall(context_parts, q) ==
    [api |-> "invoke_model", context |-> context_parts, question |-> q]

\* The parse of the request: body, query and top_k, or the exception raised.
ParseRequest(event) ==
    LET loaded == CASE event.body.type = "absent" -> json_loads("{}")
                    [] event.body.type = "NoneType" ->
                         Raised("TypeError: the JSON object must be str, bytes or bytearray, not NoneType")
                    [] OTHER -> json_loads(event.body.val)
    IN  IF loaded.kind = "raise" THEN loaded
        ELSE IF loaded.value.type # "dict"
        THEN Raised("AttributeError: 'NoneType' object has no attribute 'get'")
        ELSE Returned([query |-> DictGet(loaded.value.items, "q", PyStr("")),
                       top_k |-> DictGet(loaded.value.items, "top_k", PyInt("6"))])

Respond(response) ==
    /\ queryResponse' = response
    /\ queryPc' = "done"

\* The request is parsed and validated; a valid one calls retrieve.
QueryParse ==
    /\ queryPc = "start"
    /\ LET parsed == ParseRequest(queryEvent)
       IN  IF parsed.kind = "raise"
           THEN /\ Respond(InternalError(parsed.exc))
                /\ UNCHANGED <<query, top_k, queryCalls>>
           ELSE /\ query' = parsed.value.query
                /\ top_k' = parsed.value.top_k
                /\ IF ~Truthy(parsed.value.query)
                   THEN Respond(MissingParameter) /\ UNCHANGED queryCalls
                   ELSE IF parsed.value.query.type # "str"
                   THEN /\ Respond(InternalError("TypeError: 'int' object is not subscriptable"))
                        /\ UNCHANGED queryCalls
                   ELSE /\ queryCalls' = Append(queryCalls,
                                            RetrieveCall(parsed.value.query.val, parsed.value.top_k.val))
                        /\ queryPc' = "retrieve"
                        /\ UNCHANGED queryResponse
    /\ UNCHANGED <<queryEvent, retrieval_response, citations, model_response>>
    /\ UNCHANGED <<authVars, ingestVars>>

\* retrieve raises: retrieve_documents re-raises and the handler answers 500.
QueryRetrieveRaises ==
    /\ queryPc = "retrieve"
    /\ \E e \in RetrievalErrors :
        /\ retrieval_response' = Raised(e)
        /\ Respond(InternalError(e))
    /\ UNCHANGED <<queryEvent, query, top_k, citations, model_response, queryCalls>>
    /\ UNCHANGED <<authVars, ingestVars>>

\* retrieve returns: no results ends the request; otherwise generate_answer
\* gathers the context and, if there is any, calls invoke_model.
QueryRetrieveReturns ==
    /\ queryPc = "retrieve"
    /\ \E response \in RetrievalResponses, elapsed \in 0..MaxElapsedMs :
        LET results == IF response.present THEN response.value ELSE <<>>
            gathered == GatherContext(results, 1, <<>>, <<>>)
        IN  /\ retrieval_response' = Returned(response)
            /\ IF results = <<>>
               THEN /\ Respond(NoResultsResponse(elapsed))
                    /\ UNCHANGED <<citations, queryCalls>>
               ELSE IF gathered.context_parts = <<>>
               THEN /\ Respond(AnswerResponse(PyStr(CannotFindShort), <<>>, elapsed, query.val))
                    /\ UNCHANGED <<citations, queryCalls>>
               ELSE /\ citations' = gathered.citations
                    /\ queryCalls' = Append(queryCalls,
                                            InvokeModelCall(gathered.context_parts, query.val))
                    /\ queryPc' = "generate"
                    /\ UNCHANGED queryResponse
    /\ UNCHANGED <<queryEvent, query, top_k, model_response>>
    /\ UNCHANGED <<authVars, ingestVars>>

\* invoke_model raises, or its body has no results[0].outputText.
QueryGenerateRaises ==
    /\ queryPc = "generate"
    /\ \E e \in GenerationErrors :
        /\ model_response' = Raised(e)
        /\ Respond(InternalError(e))
    /\ UNCHANGED <<queryEvent, query, top_k, retrieval_response, citations, queryCalls>>
    /\ UNCHANGED <<authVars, ingestVars>>

\* invoke_model returns a text: the answer is cleaned and returned with the citations.
QueryGenerateReturns ==
    /\ queryPc = "generate"
    /\ \E outputText \in ModelTexts, elapsed \in 0..MaxElapsedMs :
        /\ model_response' = Returned(outputText)
        /\ Respond(AnswerResponse(PyText(CleanAnswer(outputText)), citations, elapsed, query.val))
    /\ UNCHANGED <<queryEvent, query, top_k, retrieval_response, citations, queryCalls>>
    /\ UNCHANGED <<authVars, ingestVars>>

QueryNext ==
    \/ QueryParse
    \/ QueryRetrieveRaises
    \/ QueryRetrieveReturns
    \/ QueryGenerateRaises
    \/ QueryGenerateReturns

(***************************************************************************)
(* Ingestion driver                                                        *)
(***************************************************************************)
MaxFiles == 2

TimeoutMinutes == 30
PollSeconds == 30
timeout_seconds == TimeoutMinutes * 60

AllowedSuffixes == {".pdf", ".txt", ".md", ".html"}

\* suffix.lower() on the suffixes of the model
LowerSuffix(suffix) ==
    CASE suffix = ".TXT" -> ".txt"
      [] suffix = ".PDF" -> ".pdf"
      [] OTHER -> suffix

\* What rglob('*') can yield: files with their suffix, and directories.
DirEntries ==
    {[path |-> "guide.pdf", is_file |-> TRUE, suffix |-> ".pdf"],
     [path |-> "sub/NOTES.TXT", is_file |-> TRUE, suffix |-> ".TXT"],
     [path |-> "tool.exe", is_file |-> TRUE, suffix |-> ".exe"],
     [path |-> "sub", is_file |-> FALSE, suffix |-> ""]}

\* The walks of a directory of at most MaxFiles entries: no path comes twice.
DirListings ==
    {f \in SeqsUpTo(DirEntries, MaxFiles) :
        \A i, j \in 1..Len(f) : i # j => f[i] # f[j]}

\* file_path.is_file() and file_path.suffix.lower() in [...]
IsDocument(entry) == entry.is_file /\ LowerSuffix(entry.suffix) \in AllowedSuffixes

\* f"documents/{file_path.relative_to(documents_dir)}"
S3Key(entry) == [prefix |-> "documents/", path |-> entry.path]

Call(api, arg) == [api |-> api, arg |-> arg]

JobStatuses == {"COMPLETED", "FAILED", "IN_PROGRESS", "STARTING", "STOPPED"}

\* botocore ClientError, which the admin wrappers catch by name
AdminClientErrors == {"ClientError: ThrottlingException"}
\* any other exception of the call (not a ClientError)
AdminOtherErrors == {"EndpointConnectionError"}

\* time.sleep(30) returns after the interval, or later (up to the whole timeout).
SleepDurations == {PollSeconds, timeout_seconds}

\* sys.exit(code), or main returning (code 0)
Exit(code) ==
    /\ ingestPc' = "exited"
    /\ exitCode' = code

\* main validates the documents directory.
IngestValidate ==
    /\ ingestPc = "validate"
    /\ IF ~dirExists
       THEN Exit(1)
       ELSE ingestPc' = "upload" /\ UNCHANGED exitCode
    /\ UNCHANGED <<dirExists, files, fileIdx, uploaded_count, data_source_id, job_id,
                   clock, start_time, status, success, ingestCalls>>
    /\ UNCHANGED <<authVars, queryVars>>

\* The upload loop passes over an entry that is no document.
IngestSkipEntry ==
    /\ ingestPc = "upload"
    /\ fileIdx <= Len(files)
    /\ ~IsDocument(files[fileIdx])
    /\ fileIdx' = fileIdx + 1
    /\ UNCHANGED <<dirExists, files, ingestPc, uploaded_count, data_source_id, job_id,
                   clock, start_time, status, success, ingestCalls, exitCode>>
    /\ UNCHANGED <<authVars, queryVars>>

\* upload_document_to_s3 on a document: True, or False after any exception.
IngestUpload ==
    /\ ingestPc = "upload"
    /\ fileIdx <= Len(files)
    /\ IsDocument(files[fileIdx])
    /\ ingestCalls' = Append(ingestCalls, Call("upload_fileobj", S3Key(files[fileIdx])))
    /\ \E ok \in BOOLEAN :
        uploaded_count' = IF ok THEN uploaded_count + 1 ELSE uploaded_count
    /\ fileIdx' = fileIdx + 1
    /\ UNCHANGED <<dirExists, files, ingestPc, data_source_id, job_id,
                   clock, start_time, status, success, exitCode>>
    /\ UNCHANGED <<authVars, queryVars>>

\* The step after the loop without the uploaded_count == 0 return.
IngestAfterUploads_NoCountCheck ==
    /\ ingestPc = "upload"
    /\ fileIdx > Len(files)
    /\ ingestPc' = "create"
    /\ UNCHANGED <<dirExists, files, fileIdx, uploaded_count, data_source_id, job_id,
                   clock, start_time, status, success, ingestCalls, exitCode>>
    /\ UNCHANGED <<authVars, queryVars>>

\* After the loop: nothing uploaded ends the run, otherwise the data source is next.
IngestAfterUploads ==
    /\ ingestPc = "upload"
    /\ fileIdx > Len(files)
    /\ IF uploaded_count = 0
       THEN Exit(0)
       ELSE ingestPc' = "create" /\ UNCHANGED exitCode
    /\ UNCHANGED <<dirExists, files, fileIdx, uploaded_count, data_source_id, job_id,
                   clock, start_time, status, success, ingestCalls>>
    /\ UNCHANGED <<authVars, queryVars>>

\* create_knowledge_base_data_source: the id, or an exception that main turns into exit 1.
IngestCreateDataSource ==
    /\ ingestPc = "create"
    /\ ingestCalls' = Append(ingestCalls, Call("create_data_source", "nyc-service-documents"))
    /\ \/ /\ data_source_id' = "ds-1"
          /\ ingestPc' = "start"
          /\ UNCHANGED exitCode
       \/ /\ \E e \in AdminClientErrors \cup AdminOtherErrors : Exit(1)
          /\ UNCHANGED data_source_id
    /\ UNCHANGED <<dirExists, files, fileIdx, uploaded_count, job_id,
                   clock, start_time, status, success>>
    /\ UNCHANGED <<authVars, queryVars>>

\* start_ingestion_job: the job id, or an exception that main turns into exit 1.
\* With the job id, wait_for_ingestion_completion starts and reads the clock.
IngestStartJob ==
    /\ ingestPc = "start"
    /\ ingestCalls' = Append(ingestCalls, Call("start_ingestion_job", data_source_id))
    /\ \/ /\ job_id' = "job-1"
          /\ start_time' = clock
          /\ ingestPc' = "wait"
          /\ UNCHANGED exitCode
       \/ /\ \E e \in AdminClientErrors \cup AdminOtherErrors : Exit(1)
          /\ UNCHANGED <<job_id, start_time>>
    /\ UNCHANGED <<dirExists, files, fileIdx, uploaded_count, data_source_id,
                   clock, status, success>>
    /\ UNCHANGED <<authVars, queryVars>>

\* The loop condition without the timeout: the status is checked whatever the clock says.
IngestWaitCheck_NoTimeout ==
    /\ ingestPc = "wait"
    /\ ingestPc' = "poll"
    /\ UNCHANGED <<dirExists, files, fileIdx, uploaded_count, data_source_id, job_id,
                   clock, start_time, status, success, ingestCalls, exitCode>>
    /\ UNCHANGED <<authVars, queryVars>>

\* The loop condition of the wait: inside the window the status is checked,
\* outside it the wait returns False and main exits 1.
IngestWaitCheck ==
    /\ ingestPc = "wait"
    /\ IF clock - start_time < timeout_seconds
       THEN ingestPc' = "poll" /\ UNCHANGED <<success, exitCode>>
       ELSE success' = "False" /\ Exit(1)
    /\ UNCHANGED <<dirExists, files, fileIdx, uploaded_count, data_source_id, job_id,
                   clock, start_time, status, ingestCalls>>
    /\ UNCHANGED <<authVars, queryVars>>

\* The status check with an unrecognized status ending the wait as a failure.
IngestPoll_UnknownStatusFails ==
    /\ ingestPc = "poll"
    /\ ingestCalls' = Append(ingestCalls, Call("get_ingestion_job", job_id))
    /\ \E outcome \in JobStatuses \cup AdminClientErrors \cup AdminOtherErrors :
        /\ status' = outcome
        /\ CASE outcome = "COMPLETED" -> success' = "True" /\ Exit(0) /\ UNCHANGED clock
             [] outcome \in {"FAILED", "STOPPED"} -> success' = "False" /\ Exit(1) /\ UNCHANGED clock
             [] outcome \in AdminOtherErrors -> Exit(1) /\ UNCHANGED <<clock, success>>
             [] OTHER ->
                  /\ \E d \in SleepDurations : clock' = clock + d
                  /\ ingestPc' = "wait"
                  /\ UNCHANGED <<success, exitCode>>
    /\ UNCHANGED <<dirExists, files, fileIdx, uploaded_count, data_source_id, job_id,
                   start_time>>
    /\ UNCHANGED <<authVars, queryVars>>

\* One status check: COMPLETED and FAILED end the wait, a ClientError and any
\* other status sleep and go round again, any other exception leaves the wait
\* and main exits 1.
IngestPoll ==
    /\ ingestPc = "poll"
    /\ ingestCalls' = Append(ingestCalls, Call("get_ingestion_job", job_id))
    /\ \E outcome \in JobStatuses \cup AdminClientErrors \cup AdminOtherErrors :
        /\ status' = outcome
        /\ CASE outcome = "COMPLETED" -> success' = "True" /\ Exit(0) /\ UNCHANGED clock
             [] outcome = "FAILED" -> success' = "False" /\ Exit(1) /\ UNCHANGED clock
             [] outcome \in AdminOtherErrors -> Exit(1) /\ UNCHANGED <<clock, success>>
             [] OTHER ->
                  /\ \E d \in SleepDurations : clock' = clock + d
                  /\ ingestPc' = "wait"
                  /\ UNCHANGED <<success, exitCode>>
    /\ UNCHANGED <<dirExists, files, fileIdx, uploaded_count, data_source_id, job_id,
                   start_time>>
    /\ UNCHANGED <<authVars, queryVars>>

IngestNext ==
    \/ IngestValidate
    \/ IngestSkipEntry
    \/ IngestUpload
    \/ IngestAfterUploads
    \/ IngestCreateDataSource
    \/ IngestStartJob
    \/ IngestWaitCheck
    \/ IngestPoll

(***************************************************************************)
(* Specifications                                                          *)
(***************************************************************************)
\* One invocation of the access gate, for every event and secret of the model.
AuthInit ==
    /\ API_KEY \in Secrets
    /\ authEvent \in AuthEvents
    /\ authPc = "try"
    /\ authExc = ""
    /\ authResult = NoResult
    /\ queryEvent = [body |-> PyAbsent]
    /\ queryPc = "idle"
    /\ query = PyAbsent
    /\ top_k = PyAbsent
    /\ retrieval_response = NoResult
    /\ citations = <<>>
    /\ model_response = NoResult
    /\ queryCalls = <<>>
    /\ queryResponse = NoResponse
    /\ dirExists = FALSE
    /\ files = <<>>
    /\ ingestPc = "idle"
    /\ fileIdx = 1
    /\ uploaded_count = 0
    /\ data_source_id = ""
    /\ job_id = ""
    /\ clock = 0
    /\ start_time = 0
    /\ status = ""
    /\ success = "none"
    /\ ingestCalls = <<>>
    /\ exitCode = -1

\* One request to the query handler, for every event of the model.
QueryInit ==
    /\ API_KEY = "abc123"
    /\ authEvent = [headers |-> [type |-> "absent", items |-> EmptyDict], methodArn |-> PyAbsent]
    /\ authPc = "idle"
    /\ authExc = ""
    /\ authResult = NoResult
    /\ queryEvent \in QueryEvents
    /\ queryPc = "start"
    /\ query = PyAbsent
    /\ top_k = PyAbsent
    /\ retrieval_response = NoResult
    /\ citations = <<>>
    /\ model_response = NoResult
    /\ queryCalls = <<>>
    /\ queryResponse = NoResponse
    /\ dirExists = FALSE
    /\ files = <<>>
    /\ ingestPc = "idle"
    /\ fileIdx = 1
    /\ uploaded_count = 0
    /\ data_source_id = ""
    /\ job_id = ""
    /\ clock = 0
    /\ start_time = 0
    /\ status = ""
    /\ success = "none"
    /\ ingestCalls = <<>>
    /\ exitCode = -1

\* One run of the ingestion driver, for every directory of the model.
IngestInit ==
    /\ API_KEY = "abc123"
    /\ authEvent = [headers |-> [type |-> "absent", items |-> EmptyDict], methodArn |-> PyAbsent]
    /\ authPc = "idle"
    /\ authExc = ""
    /\ authResult = NoResult
    /\ queryEvent = [body |-> PyAbsent]
    /\ queryPc = "idle"
    /\ query = PyAbsent
    /\ top_k = PyAbsent
    /\ retrieval_response = NoResult
    /\ citations = <<>>
    /\ model_response = NoResult
    /\ queryCalls = <<>>
    /\ queryResponse = NoResponse
    /\ dirExists \in BOOLEAN
    /\ files \in IF dirExists THEN DirListings ELSE {<<>>}
    /\ ingestPc = "validate"
    /\ fileIdx = 1
    /\ uploaded_count = 0
    /\ data_source_id = ""
    /\ job_id = ""
    /\ clock = 0
    /\ start_time = 0
    /\ status = ""
    /\ success = "none"
    /\ ingestCalls = <<>>
    /\ exitCode = -1

SpecAuth == AuthInit /\ [][AuthNext]_vars

SpecQuery == QueryInit /\ [][QueryNext]_vars

SpecIngest == IngestInit /\ [][IngestNext]_vars

\* The driver is one sequential process: while it has a next step, it takes it.
SpecIngestFair == SpecIngest /\ WF_vars(IngestNext)

(***************************************************************************)
(* Access gate: claims                                                     *)
(***************************************************************************)
AuthStatement == authResult.value.policyDocument.Statement[1]

\* The header the gate is asked to read, as the request carries it.
AuthHeaderPresent ==
    /\ authEvent.headers.type = "dict"
    /\ "x-api-key" \in DOMAIN authEvent.headers.items

AuthHeaderValue == authEvent.headers.items["x-api-key"]

\* Lower-casing of a header name.
LowerName(k) == IF k = "X-Api-Key" THEN "x-api-key" ELSE k

\* C1: whenever the event names its methodArn, the gate returns a policy for
\* that methodArn; the policy is Allow only if the x-api-key header is present
\* and exactly equal to the configured secret; a missing header, an empty
\* header value and any value different from the secret give Deny.
C1_AllowOnlyOnExactMatch ==
    (authPc = "done" /\ authEvent.methodArn.type = "str") =>
        /\ authResult.kind = "return"
        /\ AuthStatement.Resource = authEvent.methodArn.val
        /\ AuthStatement.Effect \in {"Allow", "Deny"}
        /\ (AuthStatement.Effect = "Allow" =>
                AuthHeaderPresent /\ AuthHeaderValue = PyStr(API_KEY))
        /\ ((~AuthHeaderPresent \/ AuthHeaderValue = PyStr("")
                \/ AuthHeaderValue # PyStr(API_KEY)) =>
                AuthStatement.Effect = "Deny")

\* What the gate does guarantee of C1: the same statement for every non-empty
\* configured secret.
AuthNonEmptySecretExactMatch == API_KEY # "" => C1_AllowOnlyOnExactMatch

\* C2: no exception leaves the gate: every invocation ends with a returned
\* policy, and an invocation in which an exception was raised ends with a Deny
\* policy for the event's resource.
C2_NoExceptionEscapes ==
    authPc = "done" =>
        /\ authResult.kind = "return"
        /\ (authExc # "" =>
                /\ AuthStatement.Effect = "Deny"
                /\ authEvent.methodArn.type = "str"
                /\ AuthStatement.Resource = authEvent.methodArn.val)

\* What the gate does guarantee of C2: for an event that names its methodArn,
\* every invocation returns, and one in which an exception was raised returns
\* Deny for that methodArn.
AuthNoEscapeWithMethodArn == authEvent.methodArn.type = "str" => C2_NoExceptionEscapes

\* C3: a request whose only API-key header, under any letter-casing of
\* 'x-api-key', carries the configured secret is answered with Allow.
C3_CaseInsensitiveHeader ==
    (/\ authPc = "done"
     /\ authEvent.methodArn.type = "str"
     /\ authEvent.headers.type = "dict"
     /\ \E k \in DOMAIN authEvent.headers.items :
            /\ LowerName(k) = "x-api-key"
            /\ authEvent.headers.items[k] = PyStr(API_KEY)
            /\ DOMAIN authEvent.headers.items = {k}) =>
        /\ authResult.kind = "return"
        /\ AuthStatement.Effect = "Allow"

(***************************************************************************)
(* Query handler: claims                                                   *)
(***************************************************************************)
QueryDone == queryPc = "done"

QueryBody == queryResponse.body.json

CountCalls(calls, api) == Cardinality({i \in 1..Len(calls) : calls[i].api = api})

\* The request as the client sent it: the question is missing or empty.
QuestionMissingOrEmpty ==
    \/ queryEvent.body.type \in {"absent", "NoneType"}
    \/ /\ queryEvent.body.type = "str"
       /\ json_loads(queryEvent.body.val).kind = "return"
       /\ json_loads(queryEvent.body.val).value.type = "dict"
       /\ LET d == json_loads(queryEvent.body.val).value.items
          IN  "q" \notin DOMAIN d \/ d["q"] = PyStr("")

\* The request carries a non-empty question string.
QuestionGiven ==
    /\ queryEvent.body.type = "str"
    /\ json_loads(queryEvent.body.val).kind = "return"
    /\ json_loads(queryEvent.body.val).value.type = "dict"
    /\ LET d == json_loads(queryEvent.body.val).value.items
       IN  "q" \in DOMAIN d /\ d["q"].type = "str" /\ d["q"].val # ""

RetrievedResults ==
    IF retrieval_response.kind = "return" /\ retrieval_response.value.present
    THEN retrieval_response.value.value
    ELSE <<>>

\* The text a retrieved passage carries ("" when it carries none).
TextOfPassage(r) ==
    IF r.content.present /\ r.content.value.text.present THEN r.content.value.text.value ELSE <<>>

SomeResultHasText == \E i \in 1..Len(RetrievedResults) : TextOfPassage(RetrievedResults[i]) # <<>>

\* C4: a request whose question is missing or empty is answered 400 with the
\* fixed missing-parameter payload, and no external call is made.
C4_MissingQuestionIs400 ==
    (QueryDone /\ QuestionMissingOrEmpty) =>
        /\ queryResponse.statusCode = 400
        /\ QueryBody = [error |-> "Missing required parameter: q (query)"]
        /\ queryCalls = <<>>

\* What the handler does guarantee of C4: no external call for a missing or
\* empty question, and the 400 unless the body is null.
QueryMissingQuestionNoCalls ==
    (QueryDone /\ QuestionMissingOrEmpty) =>
        /\ queryCalls = <<>>
        /\ queryEvent.body.type # "NoneType" => C4_MissingQuestionIs400

\* C5 as stated: with a non-empty question retrieval is called exactly once;
\* no results gives the canned message, no citations and no generation call;
\* at least one result gives exactly one generation call after retrieval.
C5_TwoBranches ==
    (QueryDone /\ QuestionGiven) =>
        /\ CountCalls(queryCalls, "retrieve") = 1
        /\ queryCalls[1].api = "retrieve"
        /\ (retrieval_response.kind = "return" /\ RetrievedResults = <<>>) =>
                /\ queryResponse.statusCode = 200
                /\ QueryBody.answer = PyStr(CannotFindLong)
                /\ QueryBody.citations = <<>>
                /\ CountCalls(queryCalls, "invoke_model") = 0
        /\ (retrieval_response.kind = "return" /\ RetrievedResults # <<>>) =>
                /\ CountCalls(queryCalls, "invoke_model") = 1
                /\ queryCalls[2].api = "invoke_model"

\* C5 amended: with a non-empty question string retrieval is called exactly
\* once, before anything else; when it returns, no results gives the canned
\* message with no citations and no generation call; results of which at
\* least one has text give exactly one generation call, made after retrieval
\* returned; results none of which has text give the short cannot-find answer
\* with no citations and no generation call.
C5_ThreeBranches ==
    /\ (queryPc # "start" /\ QuestionGiven) =>
        /\ CountCalls(queryCalls, "retrieve") = 1
        /\ queryCalls[1].api = "retrieve"
    /\ CountCalls(queryCalls, "invoke_model") > 0 =>
        /\ retrieval_response.kind = "return"
        /\ Len(queryCalls) = 2
        /\ queryCalls[1].api = "retrieve"
        /\ queryCalls[2].api = "invoke_model"
    /\ (retrieval_response.kind = "return" /\ RetrievedResults = <<>>) =>
        /\ QueryDone
        /\ queryResponse.statusCode = 200
        /\ QueryBody.answer = PyStr(CannotFindLong)
        /\ QueryBody.citations = <<>>
        /\ CountCalls(queryCalls, "invoke_model") = 0
    /\ (retrieval_response.kind = "return" /\ SomeResultHasText) =>
        CountCalls(queryCalls, "invoke_model") = 1
    /\ (retrieval_response.kind = "return" /\ RetrievedResults # <<>> /\ ~SomeResultHasText) =>
        /\ QueryDone
        /\ queryResponse.statusCode = 200
        /\ QueryBody.answer = PyStr(CannotFindShort)
        /\ QueryBody.citations = <<>>
        /\ CountCalls(queryCalls, "invoke_model") = 0

\* Retrieval returned passages, none with text: the handler answered without
\* calling the generation service.
C5_Witness ==
    /\ QueryDone
    /\ QuestionGiven
    /\ retrieval_response.kind = "return"
    /\ Len(RetrievedResults) = 2
    /\ ~SomeResultHasText
    /\ queryResponse.statusCode = 200
    /\ Len(queryCalls) = 1

\* C6: every 200 body has answer, citations, retrieval_time_ms and query, with
\* query the request's question; every 400 body has error; every 500 body has
\* error and message.
C6_ResponseFields ==
    QueryDone =>
        /\ queryResponse.statusCode \in {200, 400, 500}
        /\ queryResponse.statusCode = 200 =>
            /\ {"answer", "citations", "retrieval_time_ms", "query"} \subseteq DOMAIN QueryBody
            /\ QueryBody.query = query.val
        /\ queryResponse.statusCode = 400 => "error" \in DOMAIN QueryBody
        /\ queryResponse.statusCode = 500 => {"error", "message"} \subseteq DOMAIN QueryBody
\* What the handler does guarantee of C6: the fields of every response but
\* the 200 of the no-results branch, which has no query field.
QueryResponseFieldsButNoResults ==
    (retrieval_response.kind = "return" /\ RetrievedResults = <<>>)
        \/ C6_ResponseFields

IsWhitespace(t) == \A k \in 1..Len(t) : t[k] \in Whitespace

\* t has no whitespace at either end.
IsTrimmed(t) == t = <<>> \/ (t[1] \notin Whitespace /\ t[Len(t)] \notin Whitespace)

GeneratedAnswer == QueryDone /\ model_response.kind = "return"

\* C7 as stated: the answer is the model's text without its leading "Answer:"
\* when the text begins with it, and the model's text unchanged otherwise.
C7_PrefixRemovedOnly ==
    GeneratedAnswer =>
        LET t == model_response.value
        IN  QueryBody.answer =
                PyText(IF StartsWith(t, AnswerPrefix) THEN SliceFrom(t, AnswerPrefixLen) ELSE t)

\* C7 amended: the answer is the model's text with the whitespace at both
\* ends removed; when what remains begins with "Answer:", that one prefix is
\* removed too, and the whitespace after it; otherwise nothing more is removed.
\* So the text is  l \o answer \o r  with r whitespace, the answer trimmed,
\* and l either whitespace (the answer then not beginning with "Answer:") or
\* whitespace, "Answer:", whitespace.
C7_TrimmedAndPrefixRemoved ==
    GeneratedAnswer =>
        LET t == model_response.value
            a == QueryBody.answer.chars
        IN  /\ IsTrimmed(a)
            /\ \E i \in 0..Len(t) :
                LET l == SubSeq(t, 1, i)
                    r == SubSeq(t, i + Len(a) + 1, Len(t))
                IN  /\ i + Len(a) <= Len(t)
                    /\ SubSeq(t, i + 1, i + Len(a)) = a
                    /\ IsWhitespace(r)
                    /\ \/ IsWhitespace(l) /\ ~StartsWith(a, AnswerPrefix)
                       \/ \E w \in 0..i :
                            /\ w + AnswerPrefixLen <= i
                            /\ IsWhitespace(SubSeq(l, 1, w))
                            /\ SubSeq(l, w + 1, w + AnswerPrefixLen) = AnswerPrefix
                            /\ IsWhitespace(SubSeq(l, w + AnswerPrefixLen + 1, i))

\* The model's text " Answer: y": the answer returned is "y".
C7_Witness ==
    /\ GeneratedAnswer
    /\ model_response.value = <<" ">> \o AnswerPrefix \o <<" ", "y">>
    /\ QueryBody.answer = PyText(<<"y">>)

\* The citation c is the projection of the passage r: all five fields, the
\* defaults for what the passage lacks, the text cut at 200 characters.
CitationOf(c, r) ==
    LET text == TextOfPassage(r)
        hasMetadata == r.content.present /\ r.content.value.metadata.present
        Meta(k) == IF hasMetadata /\ k \in DOMAIN r.content.value.metadata.value
                   THEN r.content.value.metadata.value[k]
                   ELSE ""
    IN  /\ DOMAIN c = {"text", "source_url", "title", "section", "relevance_score"}
        /\ c.source_url = Meta("source_url")
        /\ c.title = Meta("title")
        /\ c.section = Meta("section")
        /\ c.relevance_score = (IF r.score.present THEN r.score.value ELSE 0)
        /\ IF Len(text) <= 200
           THEN c.text = text
           ELSE /\ Len(c.text) = 203
                /\ \A n \in 1..200 : c.text[n] = text[n]
                /\ \A n \in 201..203 : c.text[n] = "."

\* C8 as stated: one citation per retrieved passage, in retrieval order.
C8_OneCitationPerPassage ==
    GeneratedAnswer =>
        /\ Len(QueryBody.citations) = Len(RetrievedResults)
        /\ \A i \in 1..Len(RetrievedResults) :
                CitationOf(QueryBody.citations[i], RetrievedResults[i])

\* The positions of the retrieved passages that carry text.
TextPositions == {i \in 1..Len(RetrievedResults) : TextOfPassage(RetrievedResults[i]) # <<>>}

\* C8 amended: one citation per retrieved passage that has text, in retrieval
\* order (a passage without text gets no citation); every citation carries
\* all five fields, with the defaults for what its passage lacks, and the
\* passage text cut at 200 characters plus '...'.
C8_OneCitationPerTextPassage ==
    GeneratedAnswer =>
        /\ Len(QueryBody.citations) = Cardinality(TextPositions)
        /\ \A i \in TextPositions :
                CitationOf(QueryBody.citations[Cardinality({j \in TextPositions : j <= i})],
                           RetrievedResults[i])

\* A generated answer whose passages were one without text and the one of 201
\* characters without metadata: a single citation, cut, with empty source_url.
C8_Witness ==
    /\ GeneratedAnswer
    /\ Len(RetrievedResults) = 2
    /\ TextPositions = {2}
    /\ Len(TextOfPassage(RetrievedResults[2])) = 201
    /\ Len(QueryBody.citations) = 1
    /\ QueryBody.citations[1].source_url = ""
    /\ Len(QueryBody.citations[1].text) = 203

\* C9: an exception of the retrieval or the generation call gives a 500 whose
\* message is the exception's; the call is not made again (at most one
\* retrieval and one generation call per request), and the body has nothing
\* but error and message.
C9_FailureIs500 ==
    /\ CountCalls(queryCalls, "retrieve") <= 1
    /\ CountCalls(queryCalls, "invoke_model") <= 1
    /\ retrieval_response.kind = "raise" =>
        /\ QueryDone
        /\ queryResponse.statusCode = 500
        /\ QueryBody = [error |-> "Internal server error", message |-> retrieval_response.exc]
        /\ CountCalls(queryCalls, "invoke_model") = 0
    /\ model_response.kind = "raise" =>
        /\ QueryDone
        /\ queryResponse.statusCode = 500
        /\ QueryBody = [error |-> "Internal server error", message |-> model_response.exc]

\* The generation call failed after a retrieval that gave passages with text.
C9_Witness ==
    /\ QueryDone
    /\ model_response = Raised("ClientError: ModelTimeoutException")
    /\ citations # <<>>
    /\ queryResponse.statusCode = 500
    /\ Len(queryCalls) = 2

(***************************************************************************)
(* Ingestion driver: claims                                                *)
(***************************************************************************)
CallPositions(api) == {i \in 1..Len(ingestCalls) : ingestCalls[i].api = api}

IsUploadCall(c) == c.api = "upload_fileobj"

\* C10: the admin calls come in a guarded order.  create_data_source is called
\* at most once, after the upload of every document has been attempted (a
\* failed upload does not stop the later ones) and with at least one upload
\* succeeded; start_ingestion_job is called at most once, after
\* create_data_source returned an id; the job status is asked for only after
\* start_ingestion_job returned an id.  With no upload succeeded, none of the
\* three is ever called.
C10_GuardedOrder ==
    LET uploads == SelectSeq(ingestCalls, IsUploadCall)
        documents == SelectSeq(files, IsDocument)
    IN  /\ Cardinality(CallPositions("create_data_source")) <= 1
        /\ Cardinality(CallPositions("start_ingestion_job")) <= 1
        /\ Len(uploads) <= Len(documents)
        /\ \A i \in 1..Len(uploads) :
                uploads[i].arg = [prefix |-> "documents/", path |-> documents[i].path]
        /\ (ingestPc \notin {"validate", "upload"} /\ dirExists) => Len(uploads) = Len(documents)
        /\ \A c \in CallPositions("create_data_source") :
                /\ \A u \in CallPositions("upload_fileobj") : u < c
                /\ Len(uploads) = Len(documents)
                /\ uploaded_count >= 1
        /\ \A j \in CallPositions("start_ingestion_job") :
                /\ \E c \in CallPositions("create_data_source") : c < j
                /\ data_source_id # ""
        /\ \A g \in CallPositions("get_ingestion_job") :
                /\ \E j \in CallPositions("start_ingestion_job") : j < g
                /\ job_id # ""
        /\ uploaded_count = 0 =>
                CallPositions("create_data_source") \cup CallPositions("start_ingestion_job")
                    \cup CallPositions("get_ingestion_job") = {}

\* A run over two documents of which one upload failed, that went on to
\* create the data source, start the job and see it COMPLETED.
C10_Witness ==
    /\ ingestPc = "exited"
    /\ exitCode = 0
    /\ uploaded_count = 1
    /\ Len(ingestCalls) = 5
    /\ ingestCalls[1].api = "upload_fileobj"
    /\ ingestCalls[2].api = "upload_fileobj"
    /\ ingestCalls[3].api = "create_data_source"
    /\ ingestCalls[4].api = "start_ingestion_job"
    /\ ingestCalls[5].api = "get_ingestion_job"

StatusCalls == Cardinality(CallPositions("get_ingestion_job"))

\* The statuses that are neither COMPLETED nor FAILED, the unrecognized one included.
OtherStatuses == JobStatuses \ {"COMPLETED", "FAILED"}

\* C11: in the wait, a status check that reports COMPLETED makes the wait
\* return success, one that reports FAILED makes it return failure, and after
\* either no status call follows; every other status, recognized or not, is
\* handled the same way: nothing is returned, the clock moves on by at least
\* one poll interval, the loop is back at its condition, and inside the window
\* the condition leads to the next status check.
C11_StatusHandling ==
    [][/\ ingestPc = "poll" =>
            /\ status' = "COMPLETED" =>
                    ingestPc' = "exited" /\ success' = "True" /\ clock' = clock
            /\ status' = "FAILED" =>
                    ingestPc' = "exited" /\ success' = "False" /\ clock' = clock
            /\ status' \in OtherStatuses =>
                    /\ ingestPc' = "wait"
                    /\ success' = "none"
                    /\ exitCode' = exitCode
                    /\ clock' >= clock + PollSeconds
       /\ status \in {"COMPLETED", "FAILED"} => ingestCalls' = ingestCalls
       /\ (ingestPc = "wait" /\ clock - start_time < timeout_seconds) =>
            ingestPc' = "poll" /\ ingestCalls' = ingestCalls
       /\ ingestPc' = "poll" => clock' - start_time' < timeout_seconds
      ]_vars

\* The first status check gave the unrecognized status: the wait slept one
\* interval and is about to check again.
C11_Witness ==
    /\ ingestPc = "poll"
    /\ status = "STOPPED"
    /\ success = "none"
    /\ clock - start_time = PollSeconds
    /\ StatusCalls = 1

\* C12: the wait always ends.  Every run of the driver exits, and a wait that
\* has started returns or is left, also when the job never reports COMPLETED
\* or FAILED.  Every status call is made inside the timeout window; once the
\* window has passed, the loop condition makes no further call, the wait
\* returns failure and the process exits 1, as it does when the job reports
\* FAILED; a COMPLETED job ends the process with exit code 0.
C12_WaitEnds ==
    /\ <>(ingestPc = "exited")
    /\ (ingestPc \in {"wait", "poll"}) ~> (ingestPc = "exited")
    /\ [][/\ ingestCalls' # ingestCalls /\ ingestPc \in {"wait", "poll"} =>
                clock - start_time < timeout_seconds
          /\ (ingestPc = "wait" /\ clock - start_time >= timeout_seconds) =>
                /\ ingestCalls' = ingestCalls
                /\ ingestPc' = "exited"
                /\ success' = "False"
                /\ exitCode' = 1
         ]_vars
    /\ [](ingestPc = "exited" =>
            /\ success = "False" => exitCode = 1
            /\ status = "FAILED" => success = "False"
            /\ status = "COMPLETED" => success = "True"
            /\ success = "True" => exitCode = 0 /\ status = "COMPLETED")

\* A job that stayed IN_PROGRESS through the whole window, checked every 30
\* seconds: sixty status calls, then the timeout and exit code 1.
C12_Witness ==
    /\ ingestPc = "exited"
    /\ status = "IN_PROGRESS"
    /\ success = "False"
    /\ exitCode = 1
    /\ clock - start_time = timeout_seconds
    /\ StatusCalls = 60

\* The exceptions a status check can raise.
PollErrors == AdminClientErrors \cup AdminOtherErrors

\* What the poll loop does with a status-check outcome it retries: nothing is
\* returned or raised, one poll interval at least is slept, the loop goes on.
Retried ==
    /\ ingestPc' = "wait"
    /\ success' = "none"
    /\ exitCode' = exitCode
    /\ clock' >= clock + PollSeconds

\* C13: an error raised by a status check never aborts the wait.  Whatever
\* exception the check raises, it is swallowed: the wait neither returns nor
\* raises, the loop sleeps one poll interval and goes back to its condition.
C13_PollErrorSwallowed ==
    [][(ingestPc = "poll" /\ status' \in PollErrors) => Retried]_vars

\* What the code does guarantee: a ClientError of the status check is retried.
C13_ClientErrorSwallowed ==
    [][(ingestPc = "poll" /\ status' \in AdminClientErrors) => Retried]_vars

====
